---------------------------- MODULE Spec2Model ----------------------------
(***************************************************************************)
(* State-machine model of generator.py: the SBC -> AX15 adapter plate STL  *)
(* generator.                                                              *)
(*                                                                         *)
(* Numbers.  A Python float is modelled as a fixed-point integer counting  *)
(* units of 10^-Prec mm, so 25.4 is 254 * 10^(Prec-1).  Every number the   *)
(* model can produce has fewer than Prec decimals, hence `v \div 2' is the *)
(* exact half.                                                             *)
(*                                                                         *)
(* Text.  A string is a sequence of one-character strings, so that         *)
(* str.strip() and float(str) are computed character by character.         *)
(* A path string is a sequence of tokens, "/" being the separator token.   *)
(***************************************************************************)
EXTENDS Integers, Sequences, FiniteSets, TLC

(***************************************************************************)
(* Bounds of the model.                                                    *)
(***************************************************************************)
\* longest line of the bounded alphabet a user types at a prompt
MaxLineLen == 2
\* number of direct build_adapter calls made by the two-call harness
MaxCalls == 2

\* decimals carried by the fixed-point representation
Prec == MaxLineLen + 1

RECURSIVE Pow10(_)
Pow10(n) == IF n = 0 THEN 1 ELSE 10 * Pow10(n - 1)

\* one millimetre
Unit == Pow10(Prec)

(***************************************************************************)
(* Optional values: Python's None against a bound value.                   *)
(***************************************************************************)
None == [some |-> FALSE, v |-> <<>>]
Some(x) == [some |-> TRUE, v |-> <<x>>]
IsNone(o) == ~o.some
Val(o) == o.v[1]

(***************************************************************************)
(* str.strip() and float(str)                                              *)
(***************************************************************************)
Digits == {"0", "1", "2", "3", "4", "5", "6", "7", "8", "9"}

DigitVal(c) ==
    CASE c = "0" -> 0 [] c = "1" -> 1 [] c = "2" -> 2 [] c = "3" -> 3
      [] c = "4" -> 4 [] c = "5" -> 5 [] c = "6" -> 6 [] c = "7" -> 7
      [] c = "8" -> 8 [] c = "9" -> 9

IsSpace(c) == c \in {" ", "\t"}

RECURSIVE LStrip(_)
LStrip(s) == IF s # <<>> /\ IsSpace(Head(s)) THEN LStrip(Tail(s)) ELSE s

RECURSIVE RStrip(_)
RStrip(s) ==
    IF s # <<>> /\ IsSpace(s[Len(s)]) THEN RStrip(SubSeq(s, 1, Len(s) - 1)) ELSE s

\* str.strip(): leading and trailing whitespace removed, inner whitespace kept
Strip(s) == RStrip(LStrip(s))

\* the literal without its optional sign
Unsigned(s) == IF s # <<>> /\ Head(s) \in {"+", "-"} THEN Tail(s) ELSE s

DotsOf(u) == {i \in 1..Len(u) : u[i] = "."}

\* the decimal grammar of float(): [ws] [sign] (digits [. [digits]] | . digits) [ws]
\* (exponents, "inf", "nan" and "_" separators use characters outside the
\* alphabets of this model; any such character makes the literal invalid here)
IsFloatLiteral(s) ==
    LET u == Unsigned(Strip(s)) IN
    /\ Cardinality(DotsOf(u)) <= 1
    /\ \A i \in 1..Len(u) : u[i] \in Digits \cup {"."}
    /\ \E i \in 1..Len(u) : u[i] \in Digits

RECURSIVE Mantissa(_)
Mantissa(u) ==
    IF u = <<>> THEN 0
    ELSE IF u[Len(u)] = "." THEN Mantissa(SubSeq(u, 1, Len(u) - 1))
    ELSE 10 * Mantissa(SubSeq(u, 1, Len(u) - 1)) + DigitVal(u[Len(u)])

\* number of digits after the decimal point
FracLen(u) == IF DotsOf(u) = {} THEN 0 ELSE Len(u) - (CHOOSE i \in DotsOf(u) : TRUE)

FloatValue(s) ==
    LET r == Strip(s)
        u == Unsigned(r)
        m == Mantissa(u) * Pow10(Prec - FracLen(u))
    IN IF r # <<>> /\ Head(r) = "-" THEN 0 - m ELSE m

\* float(s): the value, or ValueError
float(s) ==
    IF IsFloatLiteral(s) THEN [ok |-> TRUE, value |-> FloatValue(s)]
    ELSE [ok |-> FALSE, value |-> 0]

\* a float literal of the source text
Lit(s) == FloatValue(s)

(***************************************************************************)
(* Module-level constants of generator.py                                  *)
(***************************************************************************)
DEFAULT_THICKNESS == Lit(<<"2", "5", ".", "4">>)
DEFAULT_OUTER_RADIUS == Lit(<<"1", "8", "0", ".", "0">>)
DEFAULT_CENTER_BORE_RADIUS == Lit(<<"6", "0", ".", "0">>)
DEFAULT_BOLT_RADIUS == Lit(<<"5", ".", "0">>)

\* initial value of the module-level list CHEVY_BOLTS
ChevyTable ==
    << <<76 * Unit, 95 * Unit>>, <<0 - 76 * Unit, 95 * Unit>>, <<100 * Unit, 0>>,
       <<76 * Unit, 0 - 95 * Unit>>, <<0 - 76 * Unit, 0 - 95 * Unit>>,
       <<0 - 100 * Unit, 0>> >>

\* initial value of the module-level list JEEP_BOLTS
JeepTable ==
    << <<85 * Unit, 110 * Unit>>, <<0 - 85 * Unit, 110 * Unit>>, <<120 * Unit, 0>>,
       <<85 * Unit, 0 - 110 * Unit>>, <<0 - 85 * Unit, 0 - 110 * Unit>>,
       <<0 - 120 * Unit, 0>> >>

\* tessellation of the three kinds of cylinder
PlateSections == 160
BoreSections == 80
HoleSections == 48
\* extra height of every cutting cylinder, in mm
OverCut == 2

DefaultOutputName == <<"SBC_to_AX15_adapter.stl">>

(***************************************************************************)
(* pathlib                                                                 *)
(***************************************************************************)
RECURSIVE PathParts(_)
PathParts(s) ==
    IF s = <<>> THEN <<>>
    ELSE IF Head(s) \in {"/", "."} THEN PathParts(Tail(s))
    ELSE <<Head(s)>> \o PathParts(Tail(s))

\* Path(s): Path("") is the relative path "." with no parts
Path(s) == [abs |-> s # <<>> /\ Head(s) = "/", parts |-> PathParts(s)]

\* a / b: an absolute right operand replaces the left one
JoinPath(a, b) ==
    IF b.abs THEN b ELSE [abs |-> a.abs, parts |-> a.parts \o b.parts]

\* Path.home() and Path.cwd() of the process
HomeDir == [abs |-> TRUE, parts |-> <<"home", "user">>]
Cwd == [abs |-> TRUE, parts |-> <<"work">>]

\* the directory probed by desktop_dir()
DesktopPath == JoinPath(HomeDir, Path(<<"Desktop">>))

\* desktop_dir(), given the answer of d.exists()
desktop_dir(exists) == IF exists THEN DesktopPath ELSE Cwd

\* truth value of a str: non-empty
Truthy(s) == s # <<>>

(***************************************************************************)
(* The geometry engine (trimesh), as far as generator.py drives it.        *)
(* A mesh made by creation.cylinder is centred at the origin; a solid is   *)
(* a base mesh and the cutters subtracted from it, in order of application.*)
(***************************************************************************)
cylinder(radius, height, sections) ==
    [radius |-> radius, height |-> height, sections |-> sections,
     center |-> <<0, 0, 0>>]

apply_translation(m, t) ==
    [m EXCEPT !.center = <<m.center[1] + t[1], m.center[2] + t[2], m.center[3] + t[3]>>]

AsSolid(m) == [base |-> m, cuts |-> <<>>]

\* a.difference(b) when the engine succeeds: a new solid, a untouched
difference(a, b) == [base |-> a.base, cuts |-> Append(a.cuts, b)]

\* entries of the log of engine calls
OpCylinder(m) == <<"cylinder", m.radius, m.height, m.sections>>
OpTranslate(t) == <<"translate", t[1], t[2], t[3]>>
OpDifference(a) == <<"difference", Len(a.cuts), 0, 0>>

\* lowest and highest z of a mesh
ZMin(m) == m.center[3] - (m.height \div 2)
ZMax(m) == m.center[3] + (m.height \div 2)

(***************************************************************************)
(* Inputs of the model                                                     *)
(***************************************************************************)
\* characters of the exhaustively enumerated typed lines
Alphabet == {" ", "0", "."}

RECURSIVE StringsUpTo(_)
StringsUpTo(n) ==
    IF n = 0 THEN {<<>>}
    ELSE LET shorter == StringsUpTo(n - 1) IN
         shorter \cup {Append(s, c) : s \in {t \in shorter : Len(t) = n - 1}, c \in Alphabet}

\* further typed lines: a padded number and a word
SampleLines == { <<" ", "1", "2", ".", "5", " ">>, <<"a", "b", "c">> }

\* the lines a user may type at a prompt
Lines == StringsUpTo(MaxLineLen) \cup SampleLines

\* command-line values of the four dimension flags (None: flag omitted)
ThicknessFlags ==
    {None, Some(<<"0", ".", "0">>), Some(<<"2", "5", ".", "4">>), Some(<<"1", "x">>)}
OuterRadiusFlags ==
    {None, Some(<<"0", ".", "0">>), Some(<<"1", "8", "0", ".", "0">>), Some(<<"5", "0">>)}
CenterBoreRadiusFlags == {None, Some(<<"0", ".", "0">>), Some(<<"6", "0">>)}
BoltRadiusFlags == {None, Some(<<"0", ".", "0">>), Some(<<"5", ".", "0">>)}

\* command-line values of --output-dir and --output-name (None: omitted)
OutputFlags ==
    { [output_dir |-> None, output_name |-> None],
      [output_dir |-> Some(<<>>), output_name |-> None],
      [output_dir |-> Some(<<"out">>), output_name |-> Some(<<"plate.stl">>)],
      [output_dir |-> Some(<<"out">>), output_name |-> Some(<<"/", "tmp", "/", "a.stl">>)] }

Argv ==
    { [thickness |-> t, outer_radius |-> o, center_bore_radius |-> c,
       bolt_radius |-> b, output_name |-> f.output_name, output_dir |-> f.output_dir] :
        t \in ThicknessFlags, o \in OuterRadiusFlags, c \in CenterBoreRadiusFlags,
        b \in BoltRadiusFlags, f \in OutputFlags }

\* the command line of the reference run: the four defaults given as flags
DefaultFlagsArgv ==
    {a \in Argv : /\ a.thickness = Some(<<"2", "5", ".", "4">>)
                  /\ a.outer_radius = Some(<<"1", "8", "0", ".", "0">>)
                  /\ a.center_bore_radius = Some(<<"6", "0">>)
                  /\ a.bolt_radius = Some(<<"5", ".", "0">>)}

\* the same command line without the four dimension flags
WithoutDimensionFlags(a) ==
    [a EXCEPT !.thickness = None, !.outer_radius = None,
              !.center_bore_radius = None, !.bolt_radius = None]

\* argument tuples of the direct calls of build_adapter
TestArgs ==
    {<<t, o, DEFAULT_CENTER_BORE_RADIUS, b>> :
        t \in {DEFAULT_THICKNESS, 10 * Unit},
        o \in {DEFAULT_OUTER_RADIUS, 50 * Unit},
        b \in {DEFAULT_BOLT_RADIUS, 0}}

(***************************************************************************)
(* State                                                                   *)
(***************************************************************************)
VARIABLES
    argv,                \* sys.argv: the raw flag values
    args,                \* the argparse namespace (None before parse_args)
    pc,                  \* position of the process
    thickness, outer_radius, center_bore_radius, bolt_radius,  \* locals of main
    frame,               \* the active prompt_float call
    stdin,               \* the line typed at the terminal and not yet read
    desktop_exists,      \* answer of d.exists() in desktop_dir, once asked
    out_dir, out_path,   \* locals of main
    build,               \* the active build_adapter call and its locals
    adapter,             \* local of main: the solid build_adapter returned
    exported,            \* the file written by export
    exit_code,           \* exit status, meaningful once pc = "exited"
    CHEVY_BOLTS, JEEP_BOLTS,   \* the module-level lists
    ops,                 \* log of the engine calls of the current build
    lastOut,             \* the last message written to the terminal
    calls,               \* log of the prompt_float calls of main
    lastCall,            \* arguments of the build_adapter call of main
    failedAt,            \* the step whose error ended the process
    history              \* results of the completed earlier runs or calls

vars ==
    <<argv, args, pc, thickness, outer_radius, center_bore_radius, bolt_radius,
      frame, stdin, desktop_exists, out_dir, out_path, build, adapter, exported,
      exit_code, CHEVY_BOLTS, JEEP_BOLTS, ops, lastOut, calls, lastCall,
      failedAt, history>>

mainLocals ==
    <<thickness, outer_radius, center_bore_radius, bolt_radius, out_dir, out_path,
      adapter>>
tables == <<CHEVY_BOLTS, JEEP_BOLTS>>

Dims == <<"thickness", "outer_radius", "center_bore_radius", "bolt_radius">>

\* first argument of the prompt_float call of a dimension
Label(d) ==
    CASE d = "thickness" -> "THICKNESS"
      [] d = "outer_radius" -> "OUTER_RADIUS"
      [] d = "center_bore_radius" -> "CENTER_BORE_RADIUS"
      [] d = "bolt_radius" -> "BOLT_RADIUS"

\* mutant: the bore prompt is given the bolt default
Default_BoreSlip(d) ==
    CASE d = "thickness" -> DEFAULT_THICKNESS
      [] d = "outer_radius" -> DEFAULT_OUTER_RADIUS
      [] d = "center_bore_radius" -> DEFAULT_BOLT_RADIUS
      [] d = "bolt_radius" -> DEFAULT_BOLT_RADIUS

\* second argument of the prompt_float call of a dimension
Default(d) ==
    CASE d = "thickness" -> DEFAULT_THICKNESS
      [] d = "outer_radius" -> DEFAULT_OUTER_RADIUS
      [] d = "center_bore_radius" -> DEFAULT_CENTER_BORE_RADIUS
      [] d = "bolt_radius" -> DEFAULT_BOLT_RADIUS

\* the statement after the assignment of a dimension
After(d) ==
    CASE d = "thickness" -> "outer_radius"
      [] d = "outer_radius" -> "center_bore_radius"
      [] d = "center_bore_radius" -> "bolt_radius"
      [] d = "bolt_radius" -> "out_dir"

\* the local of main named d
Local(d) ==
    CASE d = "thickness" -> thickness
      [] d = "outer_radius" -> outer_radius
      [] d = "center_bore_radius" -> center_bore_radius
      [] d = "bolt_radius" -> bolt_radius

\* assignment to the local of main named d
Assign(d, x) ==
    /\ thickness' = IF d = "thickness" THEN Some(x) ELSE thickness
    /\ outer_radius' = IF d = "outer_radius" THEN Some(x) ELSE outer_radius
    /\ center_bore_radius' =
           IF d = "center_bore_radius" THEN Some(x) ELSE center_bore_radius
    /\ bolt_radius' = IF d = "bolt_radius" THEN Some(x) ELSE bolt_radius

\* state of a process that has not started main
Fresh ==
    /\ args = None
    /\ thickness = None /\ outer_radius = None
    /\ center_bore_radius = None /\ bolt_radius = None
    /\ frame = None
    /\ stdin = None
    /\ desktop_exists = None
    /\ out_dir = None /\ out_path = None
    /\ build = None
    /\ adapter = None
    /\ exported = None
    /\ exit_code = 0
    /\ CHEVY_BOLTS = ChevyTable /\ JEEP_BOLTS = JeepTable
    /\ ops = <<>>
    /\ lastOut = <<"none", "">>
    /\ calls = <<>>
    /\ lastCall = None
    /\ failedAt = "none"

Init ==
    /\ argv \in Argv
    /\ pc = "parse_args"
    /\ history = <<>>
    /\ Fresh

\* an unhandled exception, or argparse's exit, ends the process
Exit(code, where) ==
    /\ pc' = "exited"
    /\ exit_code' = code
    /\ failedAt' = where

(***************************************************************************)
(* main, lines 78-85: parser.parse_args().  Every dimension flag has       *)
(* type=float: argparse applies float() to the raw value and exits with    *)
(* status 2 when it raises ValueError.                                     *)
(***************************************************************************)
\* one parsed dimension flag
ParsedFlag(raw) == IF IsNone(raw) THEN None ELSE Some(float(Val(raw)).value)

\* the namespace parse_args returns
Namespace(a) ==
    [thickness |-> ParsedFlag(a.thickness),
     outer_radius |-> ParsedFlag(a.outer_radius),
     center_bore_radius |-> ParsedFlag(a.center_bore_radius),
     bolt_radius |-> ParsedFlag(a.bolt_radius),
     output_name |-> IF IsNone(a.output_name) THEN DefaultOutputName
                     ELSE Val(a.output_name),
     output_dir |-> a.output_dir]

ArgvIsValid(a) ==
    \A i \in 1..Len(Dims) : IsNone(a[Dims[i]]) \/ float(Val(a[Dims[i]])).ok

ParseArgs ==
    /\ pc = "parse_args"
    /\ IF ArgvIsValid(argv)
       THEN /\ args' = Some(Namespace(argv))
            /\ pc' = "banner"
            /\ UNCHANGED <<exit_code, failedAt, lastOut>>
       ELSE /\ Exit(2, "parse_args")
            /\ lastOut' = <<"stderr", "usage">>
            /\ UNCHANGED args
    /\ UNCHANGED <<argv, mainLocals, frame, stdin, desktop_exists, build, exported,
                   tables, ops, calls, lastCall, history>>

(***************************************************************************)
(* main, line 87                                                           *)
(***************************************************************************)
Banner ==
    /\ pc = "banner"
    /\ lastOut' = <<"print", "Enter dimensions">>
    /\ pc' = "thickness"
    /\ UNCHANGED <<argv, args, mainLocals, frame, stdin, desktop_exists, build, exported,
                   exit_code, tables, ops, calls, lastCall, failedAt, history>>

(***************************************************************************)
(* main, lines 89-92: one conditional expression per dimension.            *)
(***************************************************************************)
\* mutant: the truth value of the flag instead of `is not None'
FlagGiven_Truthy(x) == x # None /\ Val(x) # 0

\* `x is not None'
FlagGiven(x) == x # None

ResolveDimension(d) ==
    /\ pc = d
    /\ IF FlagGiven(Val(args)[d])
       THEN /\ Assign(d, Val(Val(args)[d]))
            /\ pc' = After(d)
            /\ UNCHANGED <<frame, calls>>
       ELSE /\ frame' = Some([dim |-> d, label |-> Label(d), default |-> Default(d)])
            /\ calls' = Append(calls, [label |-> Label(d), default |-> Default(d),
                                       answer |-> "pending", value |-> 0])
            /\ pc' = "prompt_float"
            /\ UNCHANGED <<thickness, outer_radius, center_bore_radius, bolt_radius>>
    /\ UNCHANGED <<argv, args, out_dir, out_path, adapter, stdin, desktop_exists,
                   build, exported, exit_code, tables, ops, lastOut, lastCall,
                   failedAt, history>>

(***************************************************************************)
(* prompt_float, lines 45-52: one iteration of the loop on one input line. *)
(***************************************************************************)
\* mutant: the line is compared with "" before it is stripped
PromptStep_NoStrip(line, default) ==
    IF line = <<>> THEN [returns |-> TRUE, value |-> default, answer |-> "default"]
    ELSE IF float(line).ok /\ Strip(line) # <<>>
         THEN [returns |-> TRUE, value |-> float(line).value, answer |-> "typed"]
         ELSE [returns |-> FALSE, value |-> 0, answer |-> "pending"]

\* what one iteration does with the line read by input()
PromptStep(line, default) ==
    LET raw == Strip(line) IN
    IF raw = <<>> THEN [returns |-> TRUE, value |-> default, answer |-> "default"]
    ELSE IF float(raw).ok
         THEN [returns |-> TRUE, value |-> float(raw).value, answer |-> "typed"]
         ELSE [returns |-> FALSE, value |-> 0, answer |-> "pending"]

\* the user types a line while input() waits
TypeLine ==
    /\ pc = "prompt_float"
    /\ stdin = None
    /\ \E line \in Lines : stdin' = Some(line)
    /\ UNCHANGED <<argv, args, pc, mainLocals, frame, desktop_exists, build,
                   exported, exit_code, tables, ops, lastOut, calls, lastCall,
                   failedAt, history>>

PromptLine ==
    /\ pc = "prompt_float"
    /\ stdin # None
    /\ LET f == Val(frame)
           r == PromptStep(Val(stdin), f.default)
       IN IF r.returns
          THEN /\ Assign(f.dim, r.value)
               /\ frame' = None
               /\ pc' = After(f.dim)
               /\ calls' = [calls EXCEPT ![Len(calls)].answer = r.answer,
                                         ![Len(calls)].value = r.value]
               /\ lastOut' = <<"prompt", f.label>>
          ELSE /\ lastOut' = <<"print", "Please enter a valid number.">>
               /\ UNCHANGED <<thickness, outer_radius, center_bore_radius,
                              bolt_radius, frame, pc, calls>>
    /\ stdin' = None
    /\ UNCHANGED <<argv, args, out_dir, out_path, adapter, desktop_exists, build,
                   exported, exit_code, tables, ops, lastCall, failedAt, history>>

\* input() at end of input: EOFError, which prompt_float does not catch
PromptEOF ==
    /\ pc = "prompt_float"
    /\ stdin = None
    /\ Exit(1, "prompt_float")
    /\ frame' = None
    /\ lastOut' = <<"prompt", Val(frame).label>>
    /\ UNCHANGED <<argv, args, mainLocals, stdin, desktop_exists, build, exported,
                   tables, ops, calls, lastCall, history>>

(***************************************************************************)
(* main, line 94, with desktop_dir, lines 39-40                            *)
(***************************************************************************)
OutDir ==
    /\ pc = "out_dir"
    /\ IF Val(args).output_dir # None /\ Truthy(Val(Val(args).output_dir))
       THEN /\ out_dir' = Some(Path(Val(Val(args).output_dir)))
            /\ UNCHANGED desktop_exists
       ELSE \E e \in BOOLEAN :
               /\ desktop_exists' = Some(e)
               /\ out_dir' = Some(desktop_dir(e))
    /\ pc' = "mkdir"
    /\ UNCHANGED <<argv, args, thickness, outer_radius, center_bore_radius,
                   bolt_radius, out_path, adapter, frame, stdin, build, exported, exit_code,
                   tables, ops, lastOut, calls, lastCall, failedAt, history>>

(***************************************************************************)
(* main, line 95: mkdir(parents=True, exist_ok=True) succeeds or raises    *)
(* OSError, as the file system decides.                                    *)
(***************************************************************************)
Mkdir ==
    /\ pc = "mkdir"
    /\ \E ok \in BOOLEAN :
          IF ok THEN /\ pc' = "out_path"
                     /\ UNCHANGED <<exit_code, failedAt>>
                ELSE Exit(1, "mkdir")
    /\ UNCHANGED <<argv, args, mainLocals, frame, stdin, desktop_exists, build, exported,
                   tables, ops, lastOut, calls, lastCall, history>>

(***************************************************************************)
(* main, lines 96-103                                                      *)
(***************************************************************************)
OutPath ==
    /\ pc = "out_path"
    /\ out_path' = Some(JoinPath(Val(out_dir), Path(Val(args).output_name)))
    /\ lastOut' = <<"print", "Saving to">>
    /\ pc' = "build_adapter"
    /\ UNCHANGED <<argv, args, thickness, outer_radius, center_bore_radius,
                   bolt_radius, out_dir, adapter, frame, stdin, desktop_exists, build,
                   exported, exit_code, tables, ops, calls, lastCall, failedAt,
                   history>>

(***************************************************************************)
(* build_adapter, lines 55-74.  A boolean difference either returns the    *)
(* new solid or raises, as the engine decides; build_adapter has no        *)
(* try/except, so a raised error unwinds the call.                         *)
(***************************************************************************)
\* the frame of a call of build_adapter
BuildFrame(caller, t, o, c, b) ==
    [caller |-> caller, thickness |-> t, outer_radius |-> o,
     center_bore_radius |-> c, bolt_radius |-> b,
     adapter |-> None, bolts |-> <<>>, i |-> 0]

\* line 61
PlateCylinder(f) == cylinder(f.outer_radius, f.thickness, PlateSections)

\* lines 62 and 65: the vector that lifts the plate and the bore
Lift(f) == <<0, 0, f.thickness \div 2>>

\* line 64
BoreCylinder(f) ==
    cylinder(f.center_bore_radius, f.thickness + OverCut * Unit, BoreSections)

\* mutant: a bolt-hole cutter exactly as high as the plate
HoleCylinder_NoOverCut(f) == cylinder(f.bolt_radius, f.thickness, HoleSections)

\* line 70
HoleCylinder(f) == cylinder(f.bolt_radius, f.thickness + OverCut * Unit, HoleSections)

\* line 71: the vector that moves a hole to the bolt position xy
HoleShift(f, xy) == <<xy[1], xy[2], f.thickness \div 2>>

\* plate, center_bore and hole after their translation
Plate(f) == apply_translation(PlateCylinder(f), Lift(f))
CenterBore(f) == apply_translation(BoreCylinder(f), Lift(f))
Hole(f, xy) == apply_translation(HoleCylinder(f), HoleShift(f, xy))

\* mutant: the error of an engine call is noted and the loop goes on
BuildRaises_GoesOn(f) ==
    /\ build' = Some([f EXCEPT
           !.adapter = IF f.adapter = None THEN Some(AsSolid(Plate(f))) ELSE f.adapter,
           !.bolts = CHEVY_BOLTS \o JEEP_BOLTS,
           !.i = IF f.adapter = None THEN 0 ELSE f.i + 1])
    /\ pc' = "build_holes"
    /\ failedAt' = "build_adapter"
    /\ UNCHANGED exit_code

\* the error of an engine call leaves build_adapter and then its caller
BuildRaises(f) ==
    /\ build' = None
    /\ IF f.caller = "main"
       THEN Exit(1, "build_adapter")
       ELSE /\ pc' = "test_failed"
            /\ UNCHANGED <<exit_code, failedAt>>

\* mutant: the call checks the bore against the plate before it builds
CallBuild_ChecksBore ==
    /\ pc = "build_adapter"
    /\ lastCall' = Some(<<Val(thickness), Val(outer_radius),
                          Val(center_bore_radius), Val(bolt_radius)>>)
    /\ IF Val(center_bore_radius) > Val(outer_radius)
       THEN /\ Exit(1, "build_adapter")
            /\ UNCHANGED build
       ELSE /\ build' = Some(BuildFrame("main", Val(thickness), Val(outer_radius),
                                        Val(center_bore_radius), Val(bolt_radius)))
            /\ pc' = "build_bore"
            /\ UNCHANGED <<exit_code, failedAt>>
    /\ UNCHANGED <<argv, args, mainLocals, frame, stdin, desktop_exists, exported,
                   tables, ops, lastOut, calls, history>>

\* main, line 105: the call
CallBuild ==
    /\ pc = "build_adapter"
    /\ build' = Some(BuildFrame("main", Val(thickness), Val(outer_radius),
                                Val(center_bore_radius), Val(bolt_radius)))
    /\ lastCall' = Some(<<Val(thickness), Val(outer_radius),
                          Val(center_bore_radius), Val(bolt_radius)>>)
    /\ pc' = "build_bore"
    /\ UNCHANGED <<argv, args, mainLocals, frame, stdin, desktop_exists, exported,
                   exit_code, tables, ops, lastOut, calls, failedAt, history>>

\* lines 61-67, then the iterable of line 69 is evaluated
BuildBoreWith(iterable) ==
    /\ pc = "build_bore"
    /\ LET f == Val(build) IN
       /\ ops' = ops \o << OpCylinder(PlateCylinder(f)), OpTranslate(Lift(f)),
                            OpCylinder(BoreCylinder(f)), OpTranslate(Lift(f)),
                            OpDifference(AsSolid(Plate(f))) >>
       /\ \E raised \in BOOLEAN :
             IF raised THEN BuildRaises(f)
             ELSE /\ build' = Some([f EXCEPT
                         !.adapter = Some(difference(AsSolid(Plate(f)), CenterBore(f))),
                         !.bolts = iterable,
                         !.i = 0])
                  /\ pc' = "build_holes"
                  /\ UNCHANGED <<exit_code, failedAt>>
    /\ UNCHANGED <<argv, args, mainLocals, frame, stdin, desktop_exists, exported,
                   lastOut, calls, lastCall, history>>

\* mutant: the two bolt tables concatenated the other way round
BuildBore_JeepFirst ==
    /\ BuildBoreWith(JEEP_BOLTS \o CHEVY_BOLTS)
    /\ UNCHANGED tables

\* mutant: the iterable built by extending CHEVY_BOLTS in place
BuildBore_ExtendsInPlace ==
    /\ BuildBoreWith(CHEVY_BOLTS \o JEEP_BOLTS)
    /\ CHEVY_BOLTS' = CHEVY_BOLTS \o JEEP_BOLTS
    /\ UNCHANGED JEEP_BOLTS

BuildBore ==
    /\ BuildBoreWith(CHEVY_BOLTS \o JEEP_BOLTS)
    /\ UNCHANGED tables

\* lines 69-72: one iteration of the loop
BuildHole ==
    /\ pc = "build_holes"
    /\ Val(build).i < Len(Val(build).bolts)
    /\ LET f == Val(build)
           xy == f.bolts[f.i + 1]
       IN /\ ops' = ops \o << OpCylinder(HoleCylinder(f)), OpTranslate(HoleShift(f, xy)),
                               OpDifference(Val(f.adapter)) >>
          /\ \E raised \in BOOLEAN :
                IF raised THEN BuildRaises(f)
                ELSE /\ build' = Some([f EXCEPT
                            !.adapter = Some(difference(Val(f.adapter), Hole(f, xy))),
                            !.i = f.i + 1])
                     /\ UNCHANGED <<pc, exit_code, failedAt>>
    /\ UNCHANGED <<argv, args, mainLocals, frame, stdin, desktop_exists, exported,
                   tables, lastOut, calls, lastCall, history>>

\* line 74, and the assignment of the result by the caller
BuildReturn ==
    /\ pc = "build_holes"
    /\ Val(build).i = Len(Val(build).bolts)
    /\ LET f == Val(build) IN
       IF f.caller = "main"
       THEN /\ adapter' = f.adapter
            /\ pc' = "export"
            /\ UNCHANGED history
       ELSE /\ history' = Append(history,
                   [args |-> <<f.thickness, f.outer_radius, f.center_bore_radius,
                               f.bolt_radius>>,
                    ops |-> ops, solid |-> Val(f.adapter)])
            /\ pc' = "test_call"
            /\ UNCHANGED adapter
    /\ build' = None
    /\ UNCHANGED <<argv, args, thickness, outer_radius, center_bore_radius,
                   bolt_radius, out_dir, out_path, frame, stdin, desktop_exists, exported,
                   exit_code, tables, ops, lastOut, calls, lastCall, failedAt>>

(***************************************************************************)
(* main, lines 106-110, and line 114                                       *)
(***************************************************************************)
\* line 106: export writes the file or raises
Export ==
    /\ pc = "export"
    /\ \E ok \in BOOLEAN :
          IF ok THEN /\ exported' = Some([path |-> Val(out_path), solid |-> Val(adapter)])
                     /\ pc' = "complete"
                     /\ UNCHANGED <<exit_code, failedAt>>
                ELSE /\ Exit(1, "export")
                     /\ UNCHANGED exported
    /\ UNCHANGED <<argv, args, mainLocals, frame, stdin, desktop_exists, build, tables, ops,
                   lastOut, calls, lastCall, history>>

\* line 108
Complete ==
    /\ pc = "complete"
    /\ lastOut' = <<"print", "Export complete">>
    /\ pc' = "close"
    /\ UNCHANGED <<argv, args, mainLocals, frame, stdin, desktop_exists, build, exported,
                   exit_code, tables, ops, calls, lastCall, failedAt, history>>

\* mutant: end of input at the final read is ignored
Close_IgnoresEOF ==
    /\ pc = "close"
    /\ lastOut' = <<"prompt", "Press Enter to close...">>
    /\ \E eof \in BOOLEAN :
          IF eof THEN Exit(0, "close") ELSE Exit(0, "none")
    /\ UNCHANGED <<argv, args, mainLocals, frame, stdin, desktop_exists, build,
                   exported, tables, ops, calls, lastCall, history>>

\* lines 109-110 and 114: input() returns a line, main returns 0 and
\* SystemExit(0) ends the process; or input() raises EOFError
Close ==
    /\ pc = "close"
    /\ lastOut' = <<"prompt", "Press Enter to close...">>
    /\ \E eof \in BOOLEAN :
          IF eof THEN Exit(1, "close") ELSE Exit(0, "none")
    /\ UNCHANGED <<argv, args, mainLocals, frame, stdin, desktop_exists, build, exported,
                   tables, ops, calls, lastCall, history>>

Next ==
    \/ ParseArgs
    \/ Banner
    \/ \E i \in 1..Len(Dims) : ResolveDimension(Dims[i])
    \/ TypeLine
    \/ PromptLine
    \/ PromptEOF
    \/ OutDir
    \/ Mkdir
    \/ OutPath
    \/ CallBuild
    \/ BuildBore
    \/ BuildHole
    \/ BuildReturn
    \/ Export
    \/ Complete
    \/ Close

\* one run of the program, for every command line of Argv
Spec == Init /\ [][Next]_vars

(***************************************************************************)
(* Two runs of the program in a row: the reference run, with the four      *)
(* defaults given as flags, then a run of the same command line without    *)
(* the dimension flags.  A run is a new process: nothing but the summary   *)
(* kept in history survives it.                                            *)
(***************************************************************************)
InitRuns ==
    /\ argv \in DefaultFlagsArgv
    /\ pc = "parse_args"
    /\ history = <<>>
    /\ Fresh

Rerun ==
    /\ pc = "exited"
    /\ exit_code = 0
    /\ history = <<>>
    /\ history' = <<[args |-> Val(lastCall), ops |-> ops,
                     solid |-> Val(exported).solid]>>
    /\ argv' = WithoutDimensionFlags(argv)
    /\ pc' = "parse_args"
    /\ args' = None
    /\ thickness' = None /\ outer_radius' = None
    /\ center_bore_radius' = None /\ bolt_radius' = None
    /\ frame' = None
    /\ stdin' = None
    /\ desktop_exists' = None
    /\ out_dir' = None /\ out_path' = None
    /\ build' = None
    /\ adapter' = None
    /\ exported' = None
    /\ exit_code' = 0
    /\ ops' = <<>>
    /\ lastOut' = <<"none", "">>
    /\ calls' = <<>>
    /\ lastCall' = None
    /\ failedAt' = "none"
    /\ UNCHANGED tables

NextRuns == Next \/ Rerun

SpecRuns == InitRuns /\ [][NextRuns]_vars

(***************************************************************************)
(* Direct calls of build_adapter, one after the other, as a test of the    *)
(* function makes them.                                                    *)
(***************************************************************************)
InitCalls ==
    /\ argv \in {a \in Argv : \A k \in DOMAIN a : a[k] = None}
    /\ pc = "test_call"
    /\ history = <<>>
    /\ Fresh

TestCall ==
    /\ pc = "test_call"
    /\ Len(history) < MaxCalls
    /\ \E a \in TestArgs :
          build' = Some(BuildFrame("test", a[1], a[2], a[3], a[4]))
    /\ ops' = <<>>
    /\ pc' = "build_bore"
    /\ UNCHANGED <<argv, args, mainLocals, frame, stdin, desktop_exists, exported,
                   exit_code, tables, lastOut, calls, lastCall, failedAt, history>>

NextCalls == TestCall \/ BuildBore \/ BuildHole \/ BuildReturn

SpecCalls == InitCalls /\ [][NextCalls]_vars

(***************************************************************************)
(* Properties                                                              *)
(***************************************************************************)
\* the left operands (as numbers of cuts already applied) of the differences
\* logged in o, in the order of the calls
RECURSIVE DifferenceOperands(_)
DifferenceOperands(o) ==
    IF o = <<>> THEN <<>>
    ELSE IF Head(o)[1] = "difference"
         THEN <<Head(o)[2]>> \o DifferenceOperands(Tail(o))
         ELSE DifferenceOperands(Tail(o))

\* position and radius of a cutter
Footprint(m) == <<m.center[1], m.center[2], m.radius>>

\* C1: whenever build_adapter has returned to main, exactly thirteen
\* differences were applied, the k-th to the result of the (k-1)-th: first the
\* center bore, then the six CHEVY_BOLTS holes in table order, then the six
\* JEEP_BOLTS holes in table order; the returned solid is the thirteenth result.
C1_ThirteenDifferencesInOrder ==
    adapter # None =>
        LET solid == Val(adapter)
            a == Val(lastCall)
        IN /\ DifferenceOperands(ops) = [k \in 1..13 |-> k - 1]
           /\ solid.base.radius = a[2]
           /\ Len(solid.cuts) = 13
           /\ Footprint(solid.cuts[1]) = <<0, 0, a[3]>>
           /\ \A k \in 1..6 :
                 /\ Footprint(solid.cuts[1 + k]) =
                        <<ChevyTable[k][1], ChevyTable[k][2], a[4]>>
                 /\ Footprint(solid.cuts[7 + k]) =
                        <<JeepTable[k][1], JeepTable[k][2], a[4]>>

\* a run in which build_adapter returned and the solid was exported
C1_Witness == adapter # None /\ exported # None /\ Val(exported).solid = Val(adapter)

\* the cutters subtracted so far by the build_adapter call of main
CuttersSoFar ==
    IF adapter # None THEN Val(adapter).cuts
    ELSE IF build # None /\ Val(build).adapter # None
         THEN Val(Val(build).adapter).cuts
         ELSE <<>>

\* C9 as stated: every cutter has height thickness+2, is centred at
\* z = thickness/2 and reaches 2 mm below the bottom face (z = 0) and 2 mm
\* above the top face (z = thickness) of the plate.
C9_TwoMillimetresEachSide ==
    lastCall # None =>
        LET t == Val(lastCall)[1] IN
        \A k \in 1..Len(CuttersSoFar) :
            LET m == CuttersSoFar[k] IN
            /\ m.height = t + 2 * Unit
            /\ 2 * m.center[3] = t
            /\ ZMin(m) = 0 - 2 * Unit
            /\ ZMax(m) = t + 2 * Unit

\* C9, amended: the plate spans z = 0 .. thickness; every cutter has height
\* thickness+2, is centred at z = thickness/2, and reaches 1 mm below the
\* bottom face and 1 mm above the top face (2 mm in total), for every thickness.
C9_OneMillimetreEachSide ==
    lastCall # None =>
        LET t == Val(lastCall)[1] IN
        /\ adapter # None =>
               ZMin(Val(adapter).base) = 0 /\ ZMax(Val(adapter).base) = t
        /\ \A k \in 1..Len(CuttersSoFar) :
                 LET m == CuttersSoFar[k] IN
                 /\ m.height = t + 2 * Unit
                 /\ 2 * m.center[3] = t
                 /\ ZMin(m) = 0 - Unit
                 /\ ZMax(m) = t + Unit

\* a returned solid with all its cutters, for a plate that is not 25.4 mm thick
C9_Witness ==
    /\ adapter # None
    /\ Len(Val(adapter).cuts) = 13
    /\ Val(lastCall)[1] > 0
    /\ Val(lastCall)[1] # DEFAULT_THICKNESS

\* C10: once an engine operation of build_adapter has failed, the process has
\* ended with a non-zero status; the failed difference was the last engine
\* call (no retry, no later subtraction); main received no solid, export was
\* not called, no file was written and "Export complete" was not printed.
C10_FailurePropagates ==
    failedAt = "build_adapter" =>
        LET n == Len(DifferenceOperands(ops)) IN
        /\ pc = "exited" /\ exit_code # 0
        /\ build = None
        /\ adapter = None
        /\ exported = None
        /\ lastOut = <<"print", "Saving to">>
        /\ n \in 1..13
        /\ DifferenceOperands(ops) = [k \in 1..n |-> k - 1]
        /\ Len(ops) = 3 * n + 2
        /\ ops[Len(ops)][1] = "difference"

\* the engine failed at the seventh bolt hole (the first JEEP_BOLTS hole)
C10_Witness ==
    /\ failedAt = "build_adapter"
    /\ Len(DifferenceOperands(ops)) = 8

\* the local of main named d, after the step
NewLocal(d) ==
    CASE d = "thickness" -> thickness'
      [] d = "outer_radius" -> outer_radius'
      [] d = "center_bore_radius" -> center_bore_radius'
      [] d = "bolt_radius" -> bolt_radius'

\* prompt_float returns v to the assignment of dimension d
PromptReturns(d, v) ==
    /\ NewLocal(d) = Some(v)
    /\ pc' = After(d)
    /\ frame' = None
    /\ failedAt' = failedAt /\ exit_code' = exit_code

\* prompt_float prints its error message and stays in its loop
PromptRepeats ==
    /\ lastOut' = <<"print", "Please enter a valid number.">>
    /\ pc' = "prompt_float"
    /\ frame' = frame
    /\ <<thickness, outer_radius, center_bore_radius, bolt_radius>>' =
           <<thickness, outer_radius, center_bore_radius, bolt_radius>>
    /\ failedAt' = failedAt /\ exit_code' = exit_code

C2_Step ==
    (pc = "prompt_float" /\ stdin # None) =>
        LET line == Val(stdin)
            d == Val(frame).dim
            default == Val(frame).default
        IN IF Strip(line) = <<>> THEN PromptReturns(d, default)
           ELSE IF IsFloatLiteral(line) THEN PromptReturns(d, FloatValue(line))
           ELSE PromptRepeats

\* C2: every line read by prompt_float is handled by its kind: a line that is
\* empty after stripping returns the default, a line that parses as a float
\* returns that float, any other line prints the error message and prompts
\* again, without returning and without ending the process.
C2_PromptFloat == [][C2_Step]_vars

\* after an invalid line was answered with the error message, a line of
\* blanks is waiting to be read
C2_Witness ==
    /\ pc = "prompt_float"
    /\ lastOut = <<"print", "Please enter a valid number.">>
    /\ stdin # None
    /\ Val(stdin) # <<>>
    /\ Strip(Val(stdin)) = <<>>

\* the defaults and prompt labels of the four dimensions, in prompt order
DocumentedDefaults == <<(254 * Unit) \div 10, 180 * Unit, 60 * Unit, 5 * Unit>>
DocumentedLabels == <<"THICKNESS", "OUTER_RADIUS", "CENTER_BORE_RADIUS", "BOLT_RADIUS">>

CallsFor(l) == {k \in 1..Len(calls) : calls[k].label = l}

\* C3: when main calls build_adapter, each dimension whose flag was given
\* (0.0 included) was never prompted for and is passed as parsed; each
\* dimension whose flag was omitted was supplied by exactly one prompt_float
\* call made with its documented default; the prompt_float calls were made in
\* the order thickness, outer radius, center bore radius, bolt radius.
C3_FlagsAndPrompts ==
    lastCall # None =>
        /\ \A i \in 1..4 :
              IF argv[Dims[i]] # None
              THEN /\ CallsFor(DocumentedLabels[i]) = {}
                   /\ Val(lastCall)[i] = Val(Val(args)[Dims[i]])
                   /\ Val(lastCall)[i] = FloatValue(Val(argv[Dims[i]]))
              ELSE \E k \in 1..Len(calls) :
                      /\ CallsFor(DocumentedLabels[i]) = {k}
                      /\ calls[k].default = DocumentedDefaults[i]
                      /\ calls[k].answer # "pending"
                      /\ calls[k].answer = "default" =>
                             calls[k].value = DocumentedDefaults[i]
                      /\ Val(lastCall)[i] = calls[k].value
        /\ \A j, k \in 1..Len(calls) :
              j < k => \E m, n \in 1..4 : /\ m < n
                                          /\ calls[j].label = DocumentedLabels[m]
                                          /\ calls[k].label = DocumentedLabels[n]

\* build_adapter is called after --thickness 0.0 and --bolt-radius 0.0 were
\* given and the two other dimensions were prompted for
C3_Witness ==
    /\ lastCall # None
    /\ argv.thickness = Some(<<"0", ".", "0">>)
    /\ argv.bolt_radius = Some(<<"0", ".", "0">>)
    /\ argv.outer_radius = None /\ argv.center_bore_radius = None
    /\ Len(calls) = 2
    /\ Val(lastCall)[1] = 0

\* every dimension was prompted for and every prompt answered by Enter
AllAnsweredByEnter ==
    /\ \A i \in 1..4 : argv[Dims[i]] = None
    /\ Len(calls) = 4
    /\ \A k \in 1..4 : calls[k].answer = "default"

\* C4: a run without dimension flags in which every prompt is answered by an
\* empty line calls build_adapter with the arguments of the reference run
\* (the four defaults given as flags), and a successful such run issues the
\* same engine operations and exports the same solid as the reference run.
C4_EnterEqualsDefaultFlags ==
    (history # <<>> /\ AllAnsweredByEnter) =>
        /\ lastCall # None => Val(lastCall) = history[1].args
        /\ exported # None => /\ ops = history[1].ops
                              /\ Val(exported).solid = history[1].solid

\* both runs have exported
C4_Witness == history # <<>> /\ AllAnsweredByEnter /\ exported # None

BoreExceedsPlate == lastCall # None /\ Val(lastCall)[3] > Val(lastCall)[2]

Below(a, b) == [abs |-> a.abs, parts |-> a.parts \o b.parts]

\* the place a path names: a relative path is taken from the working directory
Resolve(p) == IF p.abs THEN p ELSE Below(Cwd, p)

\* the directory C7 names
ClaimedDir ==
    IF argv.output_dir # None THEN Path(Val(argv.output_dir))
    ELSE IF Val(desktop_exists) THEN DesktopPath ELSE Cwd

\* the file name C7 names
ClaimedName ==
    IF argv.output_name # None THEN Path(Val(argv.output_name))
    ELSE Path(<<"SBC_to_AX15_adapter.stl">>)

\* C7: the file is written to <output_dir>/<output_name>, output_dir being
\* the --output-dir value whenever the flag is given, and otherwise the
\* Desktop if it exists, else the working directory.
C7_ExportTarget ==
    /\ out_path # None =>
           Resolve(Val(out_path)) = Resolve(Below(ClaimedDir, ClaimedName))
    /\ exported # None => Val(exported).path = Val(out_path)

=============================================================================
